---------------------------- MODULE Spec2Model ----------------------------
(***************************************************************************)
(* A model of TopoPyScale's Topoclass (src/TopoPyScale/topoclass.py): the  *)
(* TimeSplitter, the cached stages and the downscaling coordinator.        *)
(*                                                                         *)
(* Strings are sequences of one-character strings, so that split, replace, *)
(* stem, glob matching and lexicographic sorting are computed as Python    *)
(* computes them.  Dates are <<year, month, day>> triples of the Gregorian *)
(* calendar.                                                               *)
(***************************************************************************)
EXTENDS Integers, Sequences, FiniteSets, TLC

VARIABLES
    config,          \* self.config (the fields the modelled code reads)
    time_splitter,   \* self.time_splitter
    status,          \* "init", "ready" (constructed), "done", or the exception raised
    pc,              \* the step of the pipeline script the process is about to run
    fs,              \* the file system: path -> content of the file
    toposub,         \* self.toposub: ds_param and df_centroids
    ds_solar,        \* self.ds_solar
    da_horizon,      \* self.da_horizon
    downscaled_pts,  \* self.downscaled_pts
    calls,           \* the calls of each compute collaborator in the current run
    hist             \* bookkeeping of the runs, which the properties refer to

vars == <<config, time_splitter, status, pc, fs, toposub, ds_solar, da_horizon,
          downscaled_pts, calls, hist>>

---------------------------------------------------------------------------
(* Bounds of the model *)

NumYears == 3        \* the calendar years the date range may touch
MaxPeriod == 2       \* the largest chunk length, in years
MaxListed == 3       \* the most files whose every listing order is enumerated
MaxPoints == 11      \* the most rows of a point list, or clusters

Years == 2019 .. (2019 + NumYears - 1)

---------------------------------------------------------------------------
(* Characters and strings *)

\* ord(): the code point of each character the model uses
CharCode(c) ==
    CASE c = "*" -> 42 [] c = "-" -> 45 [] c = "." -> 46 [] c = "/" -> 47
      [] c = "0" -> 48 [] c = "1" -> 49 [] c = "2" -> 50 [] c = "3" -> 51
      [] c = "4" -> 52 [] c = "5" -> 53 [] c = "6" -> 54 [] c = "7" -> 55
      [] c = "8" -> 56 [] c = "9" -> 57 [] c = "A" -> 65 [] c = "B" -> 66
      [] c = "_" -> 95 [] c = "a" -> 97 [] c = "c" -> 99 [] c = "d" -> 100
      [] c = "n" -> 110 [] c = "o" -> 111 [] c = "p" -> 112 [] c = "s" -> 115
      [] c = "v" -> 118

\* str < str of Python: lexicographic by code point, a proper prefix first
RECURSIVE StrLess(_, _)
StrLess(a, b) ==
    IF b = <<>> THEN FALSE
    ELSE IF a = <<>> THEN TRUE
    ELSE IF Head(a) = Head(b) THEN StrLess(Tail(a), Tail(b))
    ELSE CharCode(Head(a)) < CharCode(Head(b))

\* the index of the first c in s, 0 when there is none (str.find + 1)
RECURSIVE Find(_, _)
Find(s, c) ==
    IF s = <<>> THEN 0
    ELSE IF Head(s) = c THEN 1
    ELSE LET r == Find(Tail(s), c) IN IF r = 0 THEN 0 ELSE r + 1

\* str.split(c)
RECURSIVE Split(_, _)
Split(s, c) ==
    LET i == Find(s, c)
    IN  IF i = 0 THEN <<s>>
        ELSE <<SubSeq(s, 1, i - 1)>> \o Split(SubSeq(s, i + 1, Len(s)), c)

\* str.replace(c, by): every occurrence of the character c
RECURSIVE Replace(_, _, _)
Replace(s, c, by) ==
    IF s = <<>> THEN <<>>
    ELSE (IF Head(s) = c THEN by ELSE <<Head(s)>>) \o Replace(Tail(s), c, by)

Digit(n) == <<"0", "1", "2", "3", "4", "5", "6", "7", "8", "9">>[n + 1]

\* str(n) for n >= 0
RECURSIVE IntStr(_)
IntStr(n) == IF n < 10 THEN <<Digit(n)>> ELSE IntStr(n \div 10) \o <<Digit(n % 10)>>

\* str.zfill(w)
RECURSIVE ZFill(_, _)
ZFill(s, w) == IF Len(s) >= w THEN s ELSE ZFill(<<"0">> \o s, w)

---------------------------------------------------------------------------
(* Dates *)

IsLeap(y) == (y % 4 = 0 /\ y % 100 # 0) \/ y % 400 = 0

DaysInMonth(y, m) ==
    IF m = 2 THEN (IF IsLeap(y) THEN 29 ELSE 28)
    ELSE IF m \in {4, 6, 9, 11} THEN 30 ELSE 31

\* date < date
DateLess(a, b) ==
    \/ a[1] < b[1]
    \/ a[1] = b[1] /\ a[2] < b[2]
    \/ a[1] = b[1] /\ a[2] = b[2] /\ a[3] < b[3]

DateLeq(a, b) == a = b \/ DateLess(a, b)

\* date - pd.Timedelta('1D')
DayBefore(d) ==
    IF d[3] > 1 THEN <<d[1], d[2], d[3] - 1>>
    ELSE IF d[2] > 1 THEN <<d[1], d[2] - 1, DaysInMonth(d[1], d[2] - 1)>>
    ELSE <<d[1] - 1, 12, 31>>

\* '%Y-%m-%d', which is also what DatetimeIndex.astype(str) gives for midnights
DateStr(d) ==
    ZFill(IntStr(d[1]), 4) \o <<"-">> \o ZFill(IntStr(d[2]), 2) \o <<"-">>
        \o ZFill(IntStr(d[3]), 2)

\* the YearBegin offset: a date is on the offset when it is a 1 January
OnYearStart(d) == d[2] = 1 /\ d[3] = 1

\* YearBegin.rollforward
RollForward(d) == IF OnYearStart(d) THEN d ELSE <<d[1] + 1, 1, 1>>

\* pd.date_range(start, end, freq=f'{period}YS'): the year starts from the first
\* one not before start, period years apart, up to end
RECURSIVE RangeFrom(_, _, _)
RangeFrom(cur, end, period) ==
    IF DateLess(end, cur) THEN <<>>
    ELSE <<cur>> \o RangeFrom(<<cur[1] + period, 1, 1>>, end, period)

DateRangeYS(start, end, period) == RangeFrom(RollForward(start), end, period)

---------------------------------------------------------------------------
(* Topoclass.TimeSplitter *)

Map(f(_), s) == [i \in 1 .. Len(s) |-> f(s[i])]

\* start_list
StartList(start, end, period) == Map(DateStr, DateRangeYS(start, end, period))

\* end_list: every chunk start but the first, minus a day, then the global end
EndList(start, end, period) ==
    LET s == DateRangeYS(start, end, period)
        shifted == Map(LAMBDA d : DateStr(DayBefore(d)), s)
    IN  (IF shifted = <<>> THEN <<>> ELSE Tail(shifted)) \o <<DateStr(end)>>

\* _flist_generator raises IndexError when a chunk exists and the template
\* has no '.', or when end_list is shorter than start_list
FlistRaises(start_list, end_list, fname) ==
    /\ start_list # <<>>
    /\ \/ Len(Split(fname, ".")) < 2
       \/ Len(end_list) < Len(start_list)

\* a generator that names every chunk after the first chunk's dates
flist_generator_first(start_list, end_list, fname) ==
    LET fcom == Split(fname, ".")
    IN  [i \in 1 .. Len(start_list) |->
            fcom[1] \o <<"_">> \o start_list[1] \o <<"_">> \o end_list[1]
                \o <<".">> \o fcom[2]]

flist_generator(start_list, end_list, fname) ==
    LET fcom == Split(fname, ".")
    IN  [i \in 1 .. Len(start_list) |->
            fcom[1] \o <<"_">> \o start_list[i] \o <<"_">> \o end_list[i]
                \o <<".">> \o fcom[2]]

NoTimeSplitter ==
    [built |-> FALSE, start_list |-> <<>>, end_list |-> <<>>,
     ds_solar_flist |-> <<>>, downscaled_flist |-> <<>>]

TimeSplitterRaises(start, end, period, ds_solar_fname, downscale_fname) ==
    LET sl == StartList(start, end, period)
        el == EndList(start, end, period)
    IN  FlistRaises(sl, el, ds_solar_fname) \/ FlistRaises(sl, el, downscale_fname)

TimeSplitter(start, end, period, ds_solar_fname, downscale_fname) ==
    LET sl == StartList(start, end, period)
        el == EndList(start, end, period)
    IN  [built |-> TRUE, start_list |-> sl, end_list |-> el,
         ds_solar_flist |-> flist_generator(sl, el, ds_solar_fname),
         downscaled_flist |-> flist_generator(sl, el, downscale_fname)]

---------------------------------------------------------------------------
(* The inputs of the TimeSplitter *)

DateChoices ==
    {<<y, md[1], md[2]>> : y \in Years, md \in {<<1, 1>>, <<3, 15>>, <<12, 31>>}}

SolarTemplates ==
    { <<"s", ".", "n", "c">>,                                \* s.nc
      <<"s", ".", "v", ".", "n", "c">> }                     \* s.v.nc

DownscaledTemplates ==
    { <<"d", "_", "*", ".", "n", "c">>,                      \* d_*.nc
      <<"d", "_", "*", "_", "p", ".", "n", "c">>,            \* d_*_p.nc
      <<"d", ".", "v", "_", "*", ".", "n", "c">>,            \* d.v_*.nc
      <<"d", "_", "o", ".", "n", "c">>,                      \* d_o.nc: no wildcard
      <<"d", "_", "*">> }                                    \* d_*: no extension

\* the sampling inputs: the method, the ID column of the point list (empty when
\* no ID column is configured) and the number of rows or clusters
\* config.sampling.points.csv_file as the configuration file gives it
CsvFileName == <<"f">>

Sampling(method, csv_ids, n, clustering_method) ==
    [method |-> method, csv_ids |-> csv_ids, n |-> n,
     clustering_method |-> clustering_method, csv_file |-> CsvFileName]

Samplings ==
    { Sampling("points", <<>>, 2, "kmean"),
      Sampling("points", << <<"A">>, <<"A", "_", "1">> >>, 2, "kmean"),
      Sampling("toposub", <<>>, 2, "kmean") }

Configs ==
    [start : DateChoices, end : DateChoices, split_IO : BOOLEAN,
     split_time : 1 .. MaxPeriod, ds_solar : SolarTemplates,
     downscaled_pt : DownscaledTemplates, sampling : Samplings,
     delete_tmp_dirs : {TRUE}, directory : {<<"p", "/">>}]

None == [kind |-> "None"]

\* the collaborators invoked: how often, and for the export what it was handed
NoCalls == [dem |-> 0, sample |-> 0, solar |-> 0, horizon |-> 0, down |-> 0,
            fetch_dem |-> 0, era5 |-> 0, export |-> None, down_args |-> <<>>]

EmptyFs == [k \in {} |-> None]

\* aborted: a run was interrupted since the last completed one; rerun: this run
\* follows a completed one; startFs: the files when the first run, or the run
\* after the last completed one, started; cached: the files of outputs when
\* this run started; midConcat: the last interruption came between the
\* concatenations of two points
NoHist == [aborted |-> FALSE, rerun |-> FALSE, startFs |-> EmptyFs, cached |-> {},
           midConcat |-> FALSE]

\* the state of a Topoclass before its TimeSplitter is constructed
InitTS ==
    /\ config \in {c \in Configs :
                      /\ DateLeq(c.start, c.end)
                      /\ c.split_IO
                      /\ c.sampling.method = "points" /\ c.sampling.csv_ids = <<>>}
    /\ time_splitter = NoTimeSplitter
    /\ status = "init"
    /\ pc = 1
    /\ fs = EmptyFs
    /\ toposub = [ds_param |-> None, df_centroids |-> None]
    /\ ds_solar = None
    /\ da_horizon = None
    /\ downscaled_pts = None
    /\ calls = NoCalls
    /\ hist = NoHist

\* Topoclass.__init__, lines 148-153: the TimeSplitter is constructed
ConstructTimeSplitter ==
    /\ status = "init"
    /\ config.split_IO
    /\ ~TimeSplitterRaises(config.start, config.end, config.split_time,
                           config.ds_solar, config.downscaled_pt)
    /\ time_splitter' = TimeSplitter(config.start, config.end, config.split_time,
                                     config.ds_solar, config.downscaled_pt)
    /\ status' = "ready"
    /\ UNCHANGED <<config, pc, fs, toposub, ds_solar, da_horizon, downscaled_pts,
                   calls, hist>>

ConstructTimeSplitterRaises ==
    /\ status = "init"
    /\ config.split_IO
    /\ TimeSplitterRaises(config.start, config.end, config.split_time,
                          config.ds_solar, config.downscaled_pt)
    /\ status' = "IndexError"
    /\ UNCHANGED <<config, time_splitter, pc, fs, toposub, ds_solar, da_horizon,
                   downscaled_pts, calls, hist>>

NextTS == ConstructTimeSplitter \/ ConstructTimeSplitterRaises

SpecTS == InitTS /\ [][NextTS]_vars

---------------------------------------------------------------------------
(* Reading filenames and dates back (used to state the properties) *)

DigitVal(c) == CharCode(c) - CharCode("0")

RECURSIVE ParseInt(_)
ParseInt(s) ==
    IF s = <<>> THEN 0
    ELSE 10 * ParseInt(SubSeq(s, 1, Len(s) - 1)) + DigitVal(s[Len(s)])

\* the inverse of '%Y-%m-%d'
ParseDate(s) ==
    <<ParseInt(SubSeq(s, 1, 4)), ParseInt(SubSeq(s, 6, 7)), ParseInt(SubSeq(s, 9, 10))>>

\* the index of the last c in s, 0 when there is none (str.rfind + 1)
RECURSIVE RFind(_, _)
RFind(s, c) ==
    IF s = <<>> THEN 0
    ELSE IF s[Len(s)] = c THEN Len(s)
    ELSE RFind(SubSeq(s, 1, Len(s) - 1), c)

\* the base name and the extension of a template: around its last '.'
BaseName(fname) ==
    IF RFind(fname, ".") = 0 THEN fname ELSE SubSeq(fname, 1, RFind(fname, ".") - 1)

Extension(fname) ==
    IF RFind(fname, ".") = 0 THEN <<>>
    ELSE SubSeq(fname, RFind(fname, ".") + 1, Len(fname))

\* the (start, end) pair read back from a chunk filename: the two dates that
\* end its base name, "_YYYY-MM-DD_YYYY-MM-DD"
ParsePair(name) ==
    LET b == BaseName(name)
        n == Len(b)
    IN  IF n < 22 \/ b[n - 21] # "_" \/ b[n - 10] # "_" THEN <<>>
        ELSE <<SubSeq(b, n - 20, n - 11), SubSeq(b, n - 9, n)>>

\* days since 1 January of the first calendar year of the model
RECURSIVE DaysBeforeMonth(_, _)
DaysBeforeMonth(y, m) ==
    IF m = 1 THEN 0 ELSE DaysBeforeMonth(y, m - 1) + DaysInMonth(y, m - 1)

RECURSIVE DaysBeforeYear(_)
DaysBeforeYear(y) ==
    IF y <= 2019 THEN 0
    ELSE DaysBeforeYear(y - 1) + (IF IsLeap(y - 1) THEN 366 ELSE 365)

Ordinal(d) == DaysBeforeYear(d[1]) + DaysBeforeMonth(d[1], d[2]) + d[3]

\* the days chunk i of a TimeSplitter covers
ChunkDays(ts, i) ==
    Ordinal(ParseDate(ts.start_list[i])) .. Ordinal(ParseDate(ts.end_list[i]))

---------------------------------------------------------------------------
(* The TimeSplitter's properties *)

\* C1: for any start < end and any chunk length, the chunk list's first start is
\* start, its last end is end, each chunk ends the day before the next one
\* starts, and the days covered are exactly [start, end], none twice (also when
\* start is not a 1 January).  The code starts the chunks at year starts only.
C1_ChunksCoverRange ==
    (status = "ready" /\ DateLess(config.start, config.end)) =>
        LET ts == time_splitter
            n == Len(ts.start_list)
        IN  /\ n >= 1
            /\ Len(ts.end_list) = n
            /\ ts.start_list[1] = DateStr(config.start)
            /\ ts.end_list[n] = DateStr(config.end)
            /\ \A i \in 1 .. n - 1 :
                   ParseDate(ts.end_list[i]) = DayBefore(ParseDate(ts.start_list[i + 1]))
            /\ UNION {ChunkDays(ts, i) : i \in 1 .. n}
                   = Ordinal(config.start) .. Ordinal(config.end)
            /\ \A i, j \in 1 .. n : i # j => ChunkDays(ts, i) \cap ChunkDays(ts, j) = {}

ChunkNameOf(fname, ts, i) ==
    BaseName(fname) \o <<"_">> \o ts.start_list[i] \o <<"_">> \o ts.end_list[i]
        \o <<".">> \o Extension(fname)

\* C2: for every template, whatever its number of '.', and every chunk i, the
\* derived filename is base_{chunkstart_i}_{chunkend_i}.ext with the template's
\* base name and extension.  The code keeps the first two '.'-separated pieces.
C2_NamePreservesBaseAndExt ==
    status = "ready" =>
        LET ts == time_splitter
        IN  \A i \in 1 .. Len(ts.start_list) :
                /\ ts.ds_solar_flist[i] = ChunkNameOf(config.ds_solar, ts, i)
                /\ ts.downscaled_flist[i] = ChunkNameOf(config.downscaled_pt, ts, i)

RoundTrips(ts, flist) ==
    /\ Len(flist) = Len(ts.start_list)
    /\ \A i, j \in 1 .. Len(flist) :
           (ParsePair(flist[i]) = <<ts.start_list[j], ts.end_list[j]>>) <=> (i = j)
    /\ \A i, j \in 1 .. Len(flist) : i # j => flist[i] # flist[j]

\* C3: every chunk filename round-trips its chunk index: the (start, end) pair
\* read back from the i-th filename is chunk i's and no other chunk's, and
\* distinct chunks have distinct filenames, in both file lists.
C3_NameRoundTripsIndex ==
    status = "ready" =>
        /\ RoundTrips(time_splitter, time_splitter.ds_solar_flist)
        /\ RoundTrips(time_splitter, time_splitter.downscaled_flist)

\* C3's case: a splitter of several chunks built from a template of several '.'
C3_Witness ==
    /\ status = "ready"
    /\ Len(time_splitter.start_list) >= 2
    /\ Len(Split(config.ds_solar, ".")) > 2

\* C27: the TimeSplitter of any start <= end and any chunk length has four
\* lists of one length, at least 1, and every chunk starts no later than it
\* ends.
C27_ListsAligned ==
    time_splitter.built =>
        /\ Len(time_splitter.start_list) >= 1
        /\ Len(time_splitter.end_list) = Len(time_splitter.start_list)
        /\ Len(time_splitter.ds_solar_flist) = Len(time_splitter.start_list)
        /\ Len(time_splitter.downscaled_flist) = Len(time_splitter.start_list)
        /\ \A i \in 1 .. Len(time_splitter.start_list) :
               DateLeq(ParseDate(time_splitter.start_list[i]),
                       ParseDate(time_splitter.end_list[i]))

---------------------------------------------------------------------------
(* The file system.  A path is the directory it is resolved in ("outputs":  *)
(* project.directory + 'outputs/', "downscaled": config.outputs.downscaled) *)
(* and the parts below it; fs maps the paths of the files to their content. *)

OutPath(name) == [dir |-> "outputs", rel |-> <<name>>]
DownPath(name) == [dir |-> "downscaled", rel |-> <<name>>]

\* os.path.isfile
IsFile(f, path) == path \in DOMAIN f

\* writing (or overwriting) one file
WriteFile(f, path, content) ==
    [k \in DOMAIN f \cup {path} |-> IF k = path THEN content ELSE f[k]]

\* writing several files: new maps the paths written to their contents
WriteFiles(f, new) ==
    [k \in DOMAIN f \cup DOMAIN new |-> IF k \in DOMAIN new THEN new[k] ELSE f[k]]

\* unlink / os.remove of a set of files
RemoveFiles(f, paths) == [k \in DOMAIN f \ paths |-> f[k]]

\* fnmatch of a name against a pattern whose only special character is '*'
RECURSIVE GlobMatch(_, _)
GlobMatch(pat, name) ==
    IF pat = <<>> THEN name = <<>>
    ELSE IF Head(pat) = "*"
         THEN GlobMatch(Tail(pat), name)
                  \/ (name # <<>> /\ GlobMatch(pat, Tail(name)))
         ELSE name # <<>> /\ Head(name) = Head(pat)
                  /\ GlobMatch(Tail(pat), Tail(name))

\* Path.glob(pattern), glob.glob(dir/pattern): the direct children that match
Glob(f, dir, pat) ==
    {k \in DOMAIN f : k.dir = dir /\ Len(k.rel) = 1 /\ GlobMatch(pat, k.rel[1])}

\* Path.rglob(pattern): the files at any depth whose name matches
RGlob(f, dir, pat) ==
    {k \in DOMAIN f : k.dir = dir /\ GlobMatch(pat, k.rel[Len(k.rel)])}

\* PurePath.stem: the name without its last suffix
Stem(name) ==
    LET j == RFind(name, ".")
    IN  IF 1 < j /\ j < Len(name) THEN SubSeq(name, 1, j - 1) ELSE name

\* PurePath.__lt__: the parts compared as lists of strings
RECURSIVE PartsLess(_, _)
PartsLess(a, b) ==
    IF b = <<>> THEN FALSE
    ELSE IF a = <<>> THEN TRUE
    ELSE IF Head(a) = Head(b) THEN PartsLess(Tail(a), Tail(b))
    ELSE StrLess(Head(a), Head(b))

PathLess(a, b) == PartsLess(a.rel, b.rel)

\* the permutations of a set, as sequences
RECURSIVE AllOrders(_)
AllOrders(S) ==
    IF S = {} THEN {<<>>}
    ELSE UNION {{<<x>> \o l : l \in AllOrders(S \ {x})} : x \in S}

\* one enumeration of a set
RECURSIVE SomeOrder(_)
SomeOrder(S) ==
    IF S = {} THEN <<>>
    ELSE LET x == CHOOSE y \in S : TRUE IN <<x>> \o SomeOrder(S \ {x})

Reversed(l) == [i \in 1 .. Len(l) |-> l[Len(l) + 1 - i]]

Rotations(l) ==
    {[i \in 1 .. Len(l) |-> l[((i + k - 1) % Len(l)) + 1]] : k \in 0 .. Len(l) - 1}

\* the orders a directory may be listed in: every order of up to MaxListed
\* files; of more files, the rotations of one order and of its reverse
Listings(S) ==
    IF Cardinality(S) <= MaxListed THEN AllOrders(S)
    ELSE Rotations(SomeOrder(S)) \cup Rotations(Reversed(SomeOrder(S)))

RECURSIVE InsertSorted(_, _)
InsertSorted(sorted, x) ==
    IF sorted = <<>> THEN <<x>>
    ELSE IF PathLess(x, Head(sorted)) THEN <<x>> \o sorted
    ELSE <<Head(sorted)>> \o InsertSorted(Tail(sorted), x)

\* a listing left in the order the file system gave
Unsorted(listing) == listing

\* sorted(paths)
RECURSIVE Sorted(_)
Sorted(listing) ==
    IF listing = <<>> THEN <<>>
    ELSE InsertSorted(Sorted(SubSeq(listing, 1, Len(listing) - 1)), listing[Len(listing)])

---------------------------------------------------------------------------
(* The artifacts and the external collaborators that produce them.  A       *)
(* collaborator is modelled by its contract: what it returns and the file   *)
(* it writes.  A downscaled series is a sequence of segments, each the      *)
(* contiguous time index start..end of one point; old marks a segment of a  *)
(* file that was there before the first run.                                *)

DsParamName == <<"p", ".", "n", "c">>          \* config.outputs.file.ds_param
DfCentroidsName == <<"c", ".", "p">>           \* config.outputs.file.df_centroids
DaHorizonName == <<"a", ".", "n", "c">>        \* config.outputs.file.da_horizon

\* the cells of the terrain grid: enough for every number of clusters
GridCells == MaxPoints + 1

\* tp.compute_dem_param: the terrain grid, without a cluster_labels field
TpComputeDemParam == [kind |-> "ds_param", cells |-> GridCells, cluster_labels |-> <<>>]

\* ts.kmeans_clustering / ts.minibatch_kmeans_clustering: k centroids, indexed
\* 0 .. k-1, and for every cell the index of its cluster
TsClusterLabels(cells, k) == [c \in 1 .. cells |-> (c - 1) % k]

\* ts.inverse_scale_df applied to a table of scaled centroids gives the
\* centroids; applied to a table that is not scaled it changes its values
TsInverseScaleDf(df, scaled) == [df EXCEPT !.rescaled = ~scaled]

\* sg.get_solar_geom
SgGetSolarGeom(df, start, end) ==
    [kind |-> "ds_solar", start |-> start, end |-> end, point_id |-> df.point_id]

\* tp.compute_horizon
TpComputeHorizon == [kind |-> "da_horizon"]

Segment(pt, start, end) == [pt |-> pt, start |-> start, end |-> end, old |-> FALSE]

\* ta.downscale_climate: one file per point, named by the template with the
\* point_id in place of '*', holding the point's series over start..end
TaDownscaleClimate(df, start, end, fname) ==
    LET name(i) == DownPath(Replace(fname, "*", df.point_id[i]))
        last(k) == CHOOSE i \in 1 .. Len(df.point_id) :
                       /\ name(i) = k
                       /\ \A j \in 1 .. Len(df.point_id) : name(j) = k => j <= i
    IN  [k \in {name(i) : i \in 1 .. Len(df.point_id)} |->
            [kind |-> "down", series |-> <<Segment(df.point_id[last(k)], start, end)>>]]

\* ta.read_downscaled: the files matching the pattern, by name
TaReadDownscaled(f, pattern) ==
    [kind |-> "downscaled_pts",
     series |-> [name \in {k.rel[1] : k \in Glob(f, "downscaled", pattern)} |->
                    f[DownPath(name)].series]]

---------------------------------------------------------------------------
(* The stages.  Each is an operator on the world w: the file system, the    *)
(* object's fields, the call counters and err, the exception raised ("" for *)
(* none).                                                                   *)

Raise(w, e) == [w EXCEPT !.err = e]

\* compute_dem_param without its cache check
compute_dem_param_nocache(w) ==
    [w EXCEPT !.ds_param = TpComputeDemParam,
              !.fs = WriteFile(w.fs, OutPath(DsParamName), TpComputeDemParam),
              !.calls.dem = @ + 1]

compute_dem_param(w) ==
    IF IsFile(w.fs, OutPath(DsParamName))
    THEN [w EXCEPT !.ds_param = w.fs[OutPath(DsParamName)]]
    ELSE [w EXCEPT !.ds_param = TpComputeDemParam,
                   !.fs = WriteFile(w.fs, OutPath(DsParamName), TpComputeDemParam),
                   !.calls.dem = @ + 1]

IsDigits(str) == \A i \in 1 .. Len(str) : str[i] \in {"0", "1", "2", "3", "4", "5", "6", "7", "8", "9"}

\* pd.to_numeric(ID_col, errors='ignore').astype(str): numbers when every
\* identifier is one, the identifiers as they are otherwise
PointIdsFromIdCol(ids) ==
    IF \A i \in 1 .. Len(ids) : ids[i] # <<>> /\ IsDigits(ids[i])
    THEN [i \in 1 .. Len(ids) |-> IntStr(ParseInt(ids[i]))]
    ELSE ids

\* index + 1, not padded
PointIdsFromRows_unpadded(n) == [i \in 1 .. n |-> IntStr(i)]

\* index + 1, zero-padded to the width of the largest
PointIdsFromRows(n) == [i \in 1 .. n |-> ZFill(IntStr(i), Len(IntStr(n)))]

\* the cluster index 0 .. k-1, zero-padded to the width of the largest
PointIdsFromClusters(k) == [i \in 1 .. k |-> ZFill(IntStr(i - 1), Len(IntStr(k - 1)))]

Centroids(ids) ==
    [kind |-> "df_centroids", point_id |-> ids, lonlat |-> FALSE, hori |-> FALSE,
     rescaled |-> FALSE]

\* os.path.isabs
IsAbs(path) == path # <<>> /\ Head(path) = "/"

InputsDem == <<"i", "n", "p", "u", "t", "s", "/", "d", "e", "m", "/">>

\* lines 259-281: a relative csv_file is replaced in the configuration by its
\* path below the project directory (269-270); tp.extract_pts_param samples
\* the grid, which it needs
extract_pts_param(w, cfg) ==
    LET m == IF IsAbs(w.csv_file) THEN w
             ELSE [w EXCEPT !.csv_file = cfg.directory \o InputsDem \o w.csv_file]
    IN  IF m.ds_param = None THEN Raise(m, "AttributeError")
        ELSE [m EXCEPT !.df_centroids =
                           Centroids(IF cfg.sampling.csv_ids # <<>>
                                     THEN PointIdsFromIdCol(cfg.sampling.csv_ids)
                                     ELSE PointIdsFromRows(cfg.sampling.n)),
                       !.calls.sample = @ + 1]

\* the cluster labels kept out of the grid
label_and_persist_nolabels(w, df, labels) ==
    [w EXCEPT !.df_centroids =
                  [df EXCEPT !.point_id = PointIdsFromClusters(Len(df.point_id))],
              !.fs = WriteFile(w.fs, OutPath(DsParamName), w.ds_param)]

\* the grid cut down to one cell per cluster
label_and_persist_regridded(w, df, labels) ==
    LET ds == [w.ds_param EXCEPT !.cluster_labels = labels, !.cells = Len(df.point_id)]
    IN  [w EXCEPT !.df_centroids =
                      [df EXCEPT !.point_id = PointIdsFromClusters(Len(df.point_id))],
                  !.ds_param = ds,
                  !.fs = WriteFile(w.fs, OutPath(DsParamName), ds)]

\* lines 322-333: point_id from the index, cluster_labels into the grid, the
\* grid file rewritten
label_and_persist(w, df, labels) ==
    LET ds == [w.ds_param EXCEPT !.cluster_labels = labels]
    IN  [w EXCEPT !.df_centroids =
                      [df EXCEPT !.point_id = PointIdsFromClusters(Len(df.point_id))],
                  !.ds_param = ds,
                  !.fs = WriteFile(w.fs, OutPath(DsParamName), ds)]

\* lines 283-333.  An unknown clustering_method is printed (line 310) and the
\* function goes on with the table and the labels the object already has.
extract_topo_cluster_param(w, cfg) ==
    IF w.ds_param = None THEN Raise(w, "AttributeError")                \* line 292
    ELSE IF cfg.sampling.clustering_method \in {"kmean", "minibatchkmean"}
    THEN LET k == cfg.sampling.n
             c == [w EXCEPT !.calls.sample = @ + 1]
         IN  label_and_persist(c, TsInverseScaleDf(Centroids([i \in 1 .. k |-> <<>>]), TRUE),
                               TsClusterLabels(w.ds_param.cells, k))
    ELSE IF w.df_centroids = None THEN Raise(w, "TypeError")            \* line 311
    ELSE LET df == TsInverseScaleDf(w.df_centroids, FALSE)
             m == [w EXCEPT !.df_centroids = df]
         IN  IF w.ds_param.cluster_labels = <<>>
             THEN Raise(m, "KeyError")                                   \* line 319
             ELSE label_and_persist(m, df, w.ds_param.cluster_labels)

\* lines 344-357: the sampling of the configured method; for 'both' and for an
\* unknown method a message is printed
sample_by_method(w, cfg) ==
    IF cfg.sampling.method \in {"points", "point"} THEN extract_pts_param(w, cfg)
    ELSE IF cfg.sampling.method = "toposub" THEN extract_topo_cluster_param(w, cfg)
    ELSE w

\* lines 359-368: lon and lat added to the table, the table written
locate_and_persist(s) ==
    IF s.err # "" THEN s
    ELSE IF s.df_centroids = None THEN Raise(s, "AttributeError")   \* line 360
    ELSE LET df == [s.df_centroids EXCEPT !.lonlat = TRUE]
         IN  [s EXCEPT !.df_centroids = df,
                       !.fs = WriteFile(s.fs, OutPath(DfCentroidsName), df)]

\* extract_topo_param reusing the table only when it has the configured points
extract_topo_param_validating(w, cfg) ==
    LET g == IF w.ds_param = None THEN [w EXCEPT !.ds_param = TpComputeDemParam] ELSE w
        s == sample_by_method(g, cfg)
        fresh == locate_and_persist([s EXCEPT !.ds_param = w.ds_param, !.fs = w.fs])
    IN  IF IsFile(w.fs, OutPath(DfCentroidsName))
           /\ s.df_centroids # None
           /\ w.fs[OutPath(DfCentroidsName)].point_id = s.df_centroids.point_id
        THEN [w EXCEPT !.df_centroids = w.fs[OutPath(DfCentroidsName)]]
        ELSE fresh

\* extract_topo_param keeping its table under another name than it tests
extract_topo_param_elsewhere(w, cfg) ==
    IF IsFile(w.fs, OutPath(DfCentroidsName))
    THEN [w EXCEPT !.df_centroids = w.fs[OutPath(DfCentroidsName)]]
    ELSE LET s == sample_by_method(w, cfg)
         IN  IF s.err # "" THEN s
             ELSE IF s.df_centroids = None THEN Raise(s, "AttributeError")
             ELSE LET df == [s.df_centroids EXCEPT !.lonlat = TRUE]
                  IN  [s EXCEPT !.df_centroids = df,
                                !.fs = WriteFile(s.fs, OutPath(DfCentroidsName \o <<"2">>), df)]

extract_topo_param(w, cfg) ==
    IF IsFile(w.fs, OutPath(DfCentroidsName))
    THEN [w EXCEPT !.df_centroids = w.fs[OutPath(DfCentroidsName)]]
    ELSE locate_and_persist(sample_by_method(w, cfg))

\* one turn of compute_solar_geometry's loop (or its only turn, without split)
solar_geometry(w, fname, start, end) ==
    IF IsFile(w.fs, OutPath(fname))
    THEN [w EXCEPT !.ds_solar = w.fs[OutPath(fname)]]
    ELSE IF w.df_centroids = None THEN Raise(w, "AttributeError")
    ELSE LET ds == SgGetSolarGeom(w.df_centroids, start, end)
         IN  [w EXCEPT !.ds_solar = ds,
                       !.fs = WriteFile(w.fs, OutPath(fname), ds),
                       !.calls.solar = @ + 1]

\* compute_horizon sampling the horizon only when it has computed it
compute_horizon_oncomputed(w) ==
    LET df == [w.df_centroids EXCEPT !.hori = TRUE]
        h == [w EXCEPT !.da_horizon = TpComputeHorizon,
                       !.fs = WriteFile(w.fs, OutPath(DaHorizonName), TpComputeHorizon),
                       !.calls.horizon = @ + 1]
    IN  IF IsFile(w.fs, OutPath(DaHorizonName))
        THEN [w EXCEPT !.da_horizon = w.fs[OutPath(DaHorizonName)]]
        ELSE IF w.df_centroids = None THEN Raise(h, "AttributeError")
        ELSE [h EXCEPT !.df_centroids = df,
                       !.fs = WriteFile(h.fs, OutPath(DfCentroidsName), df)]

compute_horizon(w) ==
    LET h == IF IsFile(w.fs, OutPath(DaHorizonName))
             THEN [w EXCEPT !.da_horizon = w.fs[OutPath(DaHorizonName)]]
             ELSE [w EXCEPT !.da_horizon = TpComputeHorizon,
                            !.fs = WriteFile(w.fs, OutPath(DaHorizonName), TpComputeHorizon),
                            !.calls.horizon = @ + 1]
        df == [h.df_centroids EXCEPT !.hori = TRUE]
    IN  IF h.df_centroids = None
        THEN Raise(h, "AttributeError")       \* line 441: None has no attribute x
        ELSE [h EXCEPT !.df_centroids = df,
                       !.fs = WriteFile(h.fs, OutPath(DfCentroidsName), df)]

\* ds_param.keys(): the fields of the terrain grid
GridKeys(ds) ==
    {"elevation", "slope", "aspect"}
        \cup (IF ds.cluster_labels # <<>> THEN {"cluster_labels"} ELSE {})

\* lines 622-645: what te.to_cryogrid is handed
to_cryogrid(w) ==
    IF w.ds_param = None THEN Raise(w, "AttributeError")             \* line 631
    ELSE [w EXCEPT !.calls.export =
             IF "cluster:labels" \in GridKeys(w.ds_param)
             THEN [kind |-> "to_cryogrid", label_map |-> TRUE,
                   da_label |-> [kind |-> "cluster_labels",
                                 values |-> w.ds_param.cluster_labels]]
             ELSE [kind |-> "to_cryogrid", label_map |-> FALSE, da_label |-> None]]

---------------------------------------------------------------------------
(* downscale_climate, in the steps a run can be interrupted between *)

HasStar(pattern) == Find(pattern, "*") # 0

\* a pre-clean that removes nothing
PreCleanTargets_none(f, pattern) == {}

\* lines 464-468: the files of the directory that match the final pattern
PreCleanTargets(f, pattern) == Glob(f, "downscaled", pattern)

\* the pre-clean run before the pattern is checked
downscale_begin_cleanfirst(w, cfg) ==
    LET c == [w EXCEPT !.fs = RemoveFiles(w.fs, PreCleanTargets(w.fs, cfg.downscaled_pt))]
    IN  IF ~HasStar(cfg.downscaled_pt) THEN Raise(c, "ValueError") ELSE c

\* lines 457-468: the wildcard check, then the pre-clean
downscale_begin(w, cfg) ==
    IF ~HasStar(cfg.downscaled_pt) THEN Raise(w, "ValueError")
    ELSE [w EXCEPT !.fs = RemoveFiles(w.fs, PreCleanTargets(w.fs, cfg.downscaled_pt))]

\* what ta.downscale_climate is handed, of what this model follows
DownArgs(start, end, fname, solar) ==
    [start |-> start, end |-> end, fname |-> fname, ds_solar |-> solar]

\* lines 471-494: one turn of the loop over the chunks; the transfer function
\* reads the rows of the point table
downscale_chunk(w, ts, i) ==
    LET solar == OutPath(ts.ds_solar_flist[i])
    IN  IF ~IsFile(w.fs, solar) THEN Raise([w EXCEPT !.ds_solar = None], "FileNotFoundError")
        ELSE IF w.df_centroids = None
        THEN Raise([w EXCEPT !.ds_solar = w.fs[solar]], "AttributeError")
        ELSE [w EXCEPT !.ds_solar = w.fs[solar],
                       !.fs = WriteFiles(w.fs, TaDownscaleClimate(w.df_centroids,
                                  ts.start_list[i], ts.end_list[i], ts.downscaled_flist[i])),
                       !.calls.down = @ + 1,
                       !.calls.down_args = Append(@, DownArgs(ts.start_list[i],
                                  ts.end_list[i], ts.downscaled_flist[i], w.fs[solar]))]

\* lines 517-531: without split, one call over the whole range
downscale_global(w, cfg) ==
    IF w.df_centroids = None THEN Raise(w, "AttributeError")
    ELSE [w EXCEPT !.fs = WriteFiles(w.fs, TaDownscaleClimate(w.df_centroids,
                             DateStr(cfg.start), DateStr(cfg.end), cfg.downscaled_pt)),
                   !.calls.down = @ + 1,
                   !.calls.down_args = Append(@, DownArgs(DateStr(cfg.start),
                             DateStr(cfg.end), cfg.downscaled_pt, w.ds_solar))]

\* line 501: the final filename of a point
FinalName(cfg, pt_id) == Replace(cfg.downscaled_pt, "*", pt_id)

\* line 502: the files gathered for the k-th point
Gathered(w, cfg, k) ==
    RGlob(w.fs, "downscaled",
          Stem(FinalName(cfg, w.df_centroids.point_id[k])) \o <<"_", "*">>)

RECURSIVE ConcatSeries(_, _)
ConcatSeries(f, flist) ==
    IF flist = <<>> THEN <<>> ELSE f[Head(flist)].series \o ConcatSeries(f, Tail(flist))

\* lines 499-508: one turn of the loop over the points; listing is the order in
\* which rglob yields the gathered files
concat_point(w, cfg, k, listing) ==
    LET flist == Sorted(listing)
        fout == DownPath(FinalName(cfg, w.df_centroids.point_id[k]))
    IN  IF flist = <<>> THEN Raise(w, "ValueError")     \* xr.concat of no dataset
        ELSE [w EXCEPT !.fs = WriteFile(w.fs, fout,
                                  [kind |-> "down", series |-> ConcatSeries(w.fs, flist)])]

\* a deletion that stops after the first chunk's files
DeleteTimeSlices_first(f, ts) ==
    IF ts.downscaled_flist = <<>> THEN f
    ELSE RemoveFiles(f, Glob(f, "downscaled", ts.downscaled_flist[1]))

\* lines 510-514: the time slice files of every chunk are removed
DeleteTimeSlices(f, ts) ==
    RemoveFiles(f, UNION {Glob(f, "downscaled", ts.downscaled_flist[i]) :
                             i \in 1 .. Len(ts.downscaled_flist)})

\* lines 510-535: the time slices deleted, the final files read
downscale_end(w, cfg, ts) ==
    LET f == IF cfg.split_IO THEN DeleteTimeSlices(w.fs, ts) ELSE w.fs
    IN  [w EXCEPT !.fs = f, !.downscaled_pts = TaReadDownscaled(f, cfg.downscaled_pt)]

\* the files of config.outputs.tmp_path ("tmp") and config.climate.tmp_path
TmpFiles(f) == {k \in DOMAIN f : k.dir \in {"tmp", "climate_tmp"}}

\* shutil.rmtree(..., ignore_errors=True): the sets of files that may be left
TmpKept(f, cfg) == IF cfg.delete_tmp_dirs THEN {{}, TmpFiles(f)} ELSE {{}}

\* the temporary directories deleted whatever the configuration
delete_tmp_dirs_always(w, cfg, kept) ==
    [w EXCEPT !.fs = RemoveFiles(w.fs, TmpFiles(w.fs) \ kept)]

\* lines 537-540
delete_tmp_dirs(w, cfg, kept) ==
    IF cfg.delete_tmp_dirs
    THEN [w EXCEPT !.fs = RemoveFiles(w.fs, TmpFiles(w.fs) \ kept)]
    ELSE w

---------------------------------------------------------------------------
(* The pipeline script: compute_dem_param, extract_topo_param,              *)
(* compute_solar_geometry, compute_horizon, downscale_climate, in the steps *)
(* between which the process can be interrupted.                            *)

NPoints(df) == IF df = None THEN 0 ELSE Len(df.point_id)

Program(cfg, ts, df) ==
    LET loop(op, n) == [i \in 1 .. n |-> [op |-> op, i |-> i]]
        chunks == Len(ts.start_list)
    IN  <<[op |-> "compute_dem_param", i |-> 0], [op |-> "extract_topo_param", i |-> 0]>>
        \o (IF cfg.split_IO THEN loop("solar_chunk", chunks)
            ELSE <<[op |-> "solar_global", i |-> 0]>>)
        \o <<[op |-> "compute_horizon", i |-> 0], [op |-> "downscale_begin", i |-> 0]>>
        \o (IF cfg.split_IO
            THEN loop("downscale_chunk", chunks) \o loop("concat_point", NPoints(df))
            ELSE <<[op |-> "downscale_global", i |-> 0]>>)
        \o <<[op |-> "downscale_end", i |-> 0]>>

\* listing: for a concatenation the order in which rglob yields the files, for
\* the end of downscale_climate the temporary files rmtree fails to remove
Exec(w, cfg, ts, step, listing) ==
    CASE step.op = "compute_dem_param" -> compute_dem_param(w)
      [] step.op = "extract_topo_param" -> extract_topo_param(w, cfg)
      [] step.op = "solar_chunk" ->
             solar_geometry(w, ts.ds_solar_flist[step.i], ts.start_list[step.i],
                            ts.end_list[step.i])
      [] step.op = "solar_global" ->
             solar_geometry(w, cfg.ds_solar, DateStr(cfg.start), DateStr(cfg.end))
      [] step.op = "compute_horizon" -> compute_horizon(w)
      [] step.op = "downscale_begin" -> downscale_begin(w, cfg)
      [] step.op = "downscale_chunk" -> downscale_chunk(w, ts, step.i)
      [] step.op = "downscale_global" -> downscale_global(w, cfg)
      [] step.op = "concat_point" -> concat_point(w, cfg, step.i, listing)
      [] step.op = "downscale_end" ->
             delete_tmp_dirs(downscale_end(w, cfg, ts), cfg, listing)

\* the orders in which the files a step lists may be yielded
StepListings(w, cfg, step) ==
    IF step.op = "concat_point" THEN Listings(Gathered(w, cfg, step.i))
    ELSE IF step.op = "downscale_end" THEN TmpKept(w.fs, cfg)
    ELSE {<<>>}

\* a process that has just constructed its Topoclass over the file system f
Fresh(f) ==
    [fs |-> f, ds_param |-> None, df_centroids |-> None, ds_solar |-> None,
     da_horizon |-> None, downscaled_pts |-> None, calls |-> NoCalls, err |-> "",
     csv_file |-> CsvFileName]

\* the pipeline run from step k on, without interruption
RECURSIVE RunFrom(_, _, _, _)
RunFrom(w, cfg, ts, k) ==
    LET prog == Program(cfg, ts, w.df_centroids)
    IN  IF w.err # "" \/ k > Len(prog) THEN w
        ELSE RunFrom(Exec(w, cfg, ts, prog[k],
                          CHOOSE l \in StepListings(w, cfg, prog[k]) : TRUE),
                     cfg, ts, k + 1)

FullRun(f, cfg, ts) == RunFrom(Fresh(f), cfg, ts, 1)

---------------------------------------------------------------------------
(* The initial states: a constructed Topoclass, and what earlier runs with  *)
(* other dates may have left in the downscaled directory                    *)

OldStart == DateStr(<<2018, 1, 1>>)
OldEnd == DateStr(<<2018, 12, 31>>)
OldDir == <<"o">>

OldFile(pt) ==
    [kind |-> "down",
     series |-> <<[pt |-> pt, start |-> OldStart, end |-> OldEnd, old |-> TRUE]>>]

ConfigPointIds(cfg) ==
    IF cfg.sampling.method = "toposub" THEN PointIdsFromClusters(cfg.sampling.n)
    ELSE IF cfg.sampling.csv_ids # <<>> THEN PointIdsFromIdCol(cfg.sampling.csv_ids)
    ELSE PointIdsFromRows(cfg.sampling.n)

\* what may be left: nothing; the final file of the first point and its chunk
\* file over 2018 in the directory; that chunk file in a subdirectory
Leftovers(cfg) ==
    LET pt == ConfigPointIds(cfg)[1]
        final == FinalName(cfg, pt)
        chunk == Replace(flist_generator(<<OldStart>>, <<OldEnd>>, cfg.downscaled_pt)[1],
                         "*", pt)
    IN  {{}, {DownPath(final)}}
        \cup (IF Len(Split(cfg.downscaled_pt, ".")) < 2 THEN {}
              ELSE {{DownPath(final), DownPath(chunk)},
                    {[dir |-> "downscaled", rel |-> <<OldDir, chunk>>]}})

\* the files of the outputs directory: the cached artifacts
CachedIn(f) == {k \in DOMAIN f : k.dir = "outputs"}

PipeConfigs ==
    {c \in Configs :
        /\ c.start \in {<<2019, 1, 1>>, <<2019, 3, 15>>}
        /\ c.end = <<2019 + NumYears - 2, 12, 31>>
        /\ c.ds_solar = <<"s", ".", "n", "c">>
        /\ Len(Split(c.downscaled_pt, ".")) >= 2
        /\ c.split_IO => ~TimeSplitterRaises(c.start, c.end, c.split_time, c.ds_solar,
                                             c.downscaled_pt)}

Init ==
    /\ config \in PipeConfigs
    /\ time_splitter = IF config.split_IO
                       THEN TimeSplitter(config.start, config.end, config.split_time,
                                         config.ds_solar, config.downscaled_pt)
                       ELSE NoTimeSplitter
    /\ status = "ready"
    /\ pc = 1
    /\ \E left \in Leftovers(config) :
           fs = [k \in left |-> OldFile(ConfigPointIds(config)[1])]
    /\ toposub = [ds_param |-> None, df_centroids |-> None]
    /\ ds_solar = None
    /\ da_horizon = None
    /\ downscaled_pts = None
    /\ calls = NoCalls
    /\ hist = [aborted |-> FALSE, rerun |-> FALSE, startFs |-> fs, cached |-> CachedIn(fs),
               midConcat |-> FALSE]

World ==
    [fs |-> fs, ds_param |-> toposub.ds_param, df_centroids |-> toposub.df_centroids,
     ds_solar |-> ds_solar, da_horizon |-> da_horizon,
     downscaled_pts |-> downscaled_pts, calls |-> calls, err |-> "",
     csv_file |-> config.sampling.csv_file]

CurrentProgram == Program(config, time_splitter, toposub.df_centroids)

\* the step the process is about to run
AtStep(op) == status = "ready" /\ pc <= Len(CurrentProgram) /\ CurrentProgram[pc].op = op

\* the process runs the step it stands at
RunStep ==
    /\ \E listing \in StepListings(World, config, CurrentProgram[pc]) :
           LET w == Exec(World, config, time_splitter, CurrentProgram[pc], listing)
               last == pc = Len(Program(config, time_splitter, w.df_centroids))
           IN  /\ fs' = w.fs
               /\ toposub' = [ds_param |-> w.ds_param, df_centroids |-> w.df_centroids]
               /\ ds_solar' = w.ds_solar
               /\ da_horizon' = w.da_horizon
               /\ downscaled_pts' = w.downscaled_pts
               /\ calls' = w.calls
               /\ status' = IF w.err # "" THEN w.err ELSE IF last THEN "done" ELSE "ready"
               /\ pc' = IF w.err # "" THEN pc ELSE pc + 1
               /\ config' = [config EXCEPT !.sampling.csv_file = w.csv_file]
    /\ UNCHANGED <<time_splitter, hist>>

ComputeDemParam == AtStep("compute_dem_param") /\ RunStep

ExtractTopoParam == AtStep("extract_topo_param") /\ RunStep

ComputeSolarGeometryChunk == AtStep("solar_chunk") /\ RunStep

ComputeSolarGeometryGlobal == AtStep("solar_global") /\ RunStep

ComputeHorizon == AtStep("compute_horizon") /\ RunStep

DownscaleBegin == AtStep("downscale_begin") /\ RunStep

DownscaleChunk == AtStep("downscale_chunk") /\ RunStep

DownscaleGlobal == AtStep("downscale_global") /\ RunStep

ConcatPoint == AtStep("concat_point") /\ RunStep

DownscaleEnd == AtStep("downscale_end") /\ RunStep

\* a new process reads the configuration file and constructs its Topoclass
\* over the files as they are
Restart ==
    /\ pc' = 1
    /\ status' = "ready"
    /\ toposub' = [ds_param |-> None, df_centroids |-> None]
    /\ ds_solar' = None
    /\ da_horizon' = None
    /\ downscaled_pts' = None
    /\ calls' = NoCalls
    /\ config' = [config EXCEPT !.sampling.csv_file = CsvFileName]
    /\ UNCHANGED <<time_splitter, fs>>

\* the run is interrupted between two steps and the pipeline is run again
Abort ==
    /\ status = "ready"
    /\ pc > 1
    /\ Restart
    /\ hist' = [hist EXCEPT !.aborted = TRUE, !.cached = CachedIn(fs),
                            !.midConcat = (CurrentProgram[pc].op = "concat_point"
                                           /\ CurrentProgram[pc - 1].op = "concat_point")]

\* the pipeline is run again after a completed run
Rerun ==
    /\ status = "done"
    /\ Restart
    /\ hist' = [hist EXCEPT !.aborted = FALSE, !.rerun = TRUE, !.startFs = fs,
                            !.cached = CachedIn(fs), !.midConcat = FALSE]

Next ==
    \/ ComputeDemParam
    \/ ExtractTopoParam
    \/ ComputeSolarGeometryChunk
    \/ ComputeSolarGeometryGlobal
    \/ ComputeHorizon
    \/ DownscaleBegin
    \/ DownscaleChunk
    \/ DownscaleGlobal
    \/ ConcatPoint
    \/ DownscaleEnd
    \/ Abort
    \/ Rerun

Spec == Init /\ [][Next]_vars

---------------------------------------------------------------------------
(* The downscaling coordinator's properties *)

PointIds == toposub.df_centroids.point_id

Chunks == 1 .. Len(time_splitter.start_list)

\* a series whose time index ascends without gap or duplicate from start to end
\* (dates as '%Y-%m-%d' strings)
Continuous(series, start, end) ==
    /\ series # <<>>
    /\ series[1].start = start
    /\ series[Len(series)].end = end
    /\ \A j \in 1 .. Len(series) :
           DateLeq(ParseDate(series[j].start), ParseDate(series[j].end))
    /\ \A j \in 1 .. Len(series) - 1 :
           ParseDate(series[j].end) = DayBefore(ParseDate(series[j + 1].start))

\* C4: downscale_climate with a final pattern that has no wildcard raises the
\* configuration error before anything else: no file is deleted, no solar
\* artifact is opened and the transfer function is not invoked.
C4_NoWildcardRaisesFirst ==
    [][(DownscaleBegin /\ ~HasStar(config.downscaled_pt)) =>
           /\ status' = "ValueError"
           /\ fs' = fs
           /\ ds_solar' = ds_solar
           /\ calls' = calls
           /\ downscaled_pts' = downscaled_pts]_vars

\* C4's case: the error was raised while a file matching the pattern was there
C4_Witness ==
    /\ status = "ValueError"
    /\ ~HasStar(config.downscaled_pt)
    /\ Glob(fs, "downscaled", config.downscaled_pt) # {}
    /\ calls.down = 0

\* C5: after downscale_climate no final per-point series holds data a previous
\* run left, whatever files it left in the directory or its subdirectories.
\* The pre-clean is a glob of the directory, the gathering an rglob below it.
C5_NoDataOfPreviousRun ==
    status = "done" =>
        \A k \in 1 .. Len(PointIds) :
            LET final == DownPath(FinalName(config, PointIds[k]))
            IN  IsFile(fs, final) =>
                    \A j \in 1 .. Len(fs[final].series) : ~fs[final].series[j].old

\* the chunk files of the k-th point in the current run
OwnChunkFiles(k) ==
    {DownPath(Replace(time_splitter.downscaled_flist[i], "*", PointIds[k])) : i \in Chunks}

\* C6: when the files gathered for a point are its chunk files, in whatever
\* order the file system lists them, the concatenated series ascends strictly
\* and spans the chunks' combined range without gap or duplicate.
C6_ConcatenationOrdered ==
    [][(ConcatPoint /\ Gathered(World, config, CurrentProgram[pc].i)
                           = OwnChunkFiles(CurrentProgram[pc].i)) =>
           LET k == CurrentProgram[pc].i
               final == DownPath(FinalName(config, PointIds[k]))
           IN  /\ status' \in {"ready", "done"}
               /\ IsFile(fs', final)
               /\ Len(fs'[final].series) = Len(time_splitter.start_list)
               /\ Continuous(fs'[final].series, time_splitter.start_list[1],
                             time_splitter.end_list[Len(time_splitter.end_list)])]_vars

\* C6's case: a point's series was concatenated from several chunk files of its own
C6_Witness ==
    /\ status = "ready"
    /\ config.split_IO
    /\ pc <= Len(CurrentProgram)
    /\ CurrentProgram[pc].op \in {"concat_point", "downscale_end"}
    /\ \E k \in 1 .. Len(PointIds) :
           LET final == DownPath(FinalName(config, PointIds[k]))
           IN  /\ IsFile(fs, final)
               /\ Len(fs[final].series) >= 2
               /\ \A j \in 1 .. Len(fs[final].series) :
                      fs[final].series[j].pt = PointIds[k] /\ ~fs[final].series[j].old
               /\ OwnChunkFiles(k) \subseteq DOMAIN fs

\* C7: after downscale_climate completes in split mode, the dataset handed to
\* the exports has for every point, under its point_id, a gap-free ascending
\* index covering the whole of [start, end].  (The chunks start at a 1 January.)
C7_CompleteIndex ==
    (status = "done" /\ config.split_IO) =>
        \A k \in 1 .. Len(PointIds) :
            /\ FinalName(config, PointIds[k]) \in DOMAIN downscaled_pts.series
            /\ Continuous(downscaled_pts.series[FinalName(config, PointIds[k])],
                          DateStr(config.start), DateStr(config.end))

SecondRunDone == status = "done" /\ hist.rerun /\ ~hist.aborted

\* C9 as stated: the second run of the full pipeline without clean recomputes
\* nothing and leaves the artifacts of the first.
C9_NoRecomputation ==
    SecondRunDone => (calls = NoCalls /\ fs = hist.startFs)

\* C9: in the second run of the full pipeline without clean, the cached stages
\* (DEM parameters, sampling, solar geometry, horizon) compute nothing; the
\* downscaling is computed again, once per chunk (once without splitting), and
\* the persisted artifacts are those the first run left.
C9_CachedStagesNotRecomputed ==
    SecondRunDone =>
        /\ calls.dem = 0
        /\ calls.sample = 0
        /\ calls.solar = 0
        /\ calls.horizon = 0
        /\ calls.down = (IF config.split_IO THEN Len(time_splitter.start_list) ELSE 1)
        /\ fs = hist.startFs

\* C9's case: a second run has completed, on the artifacts of a first
C9_Witness ==
    /\ SecondRunDone
    /\ OutPath(DsParamName) \in hist.cached
    /\ calls.down >= 1

\* the solar files of the configuration
SolarFiles ==
    IF config.split_IO
    THEN {OutPath(time_splitter.ds_solar_flist[i]) : i \in Chunks}
    ELSE {OutPath(config.ds_solar)}

\* C10: a run restarted after an interruption (after any stage, after any
\* chunk, in the middle of the concatenation) ends with the persisted
\* artifacts of an uninterrupted run, and does not recompute the stages whose
\* artifact was there at the restart; it fails only as the uninterrupted run does.
C10_RestartReachesSameState ==
    /\ (hist.aborted /\ status \notin {"ready", "done"}) =>
           FullRun(hist.startFs, config, time_splitter).err = status
    /\ (status = "done" /\ hist.aborted) =>
           /\ fs = FullRun(hist.startFs, config, time_splitter).fs
           /\ calls.dem = (IF OutPath(DsParamName) \in hist.cached THEN 0 ELSE 1)
           /\ calls.sample = (IF OutPath(DfCentroidsName) \in hist.cached THEN 0 ELSE 1)
           /\ calls.horizon = (IF OutPath(DaHorizonName) \in hist.cached THEN 0 ELSE 1)
           /\ calls.solar = Cardinality(SolarFiles \ hist.cached)
           /\ FullRun(hist.startFs, config, time_splitter).err = ""

\* C10's case: a run interrupted in the middle of the concatenation was
\* restarted and has completed
C10_Witness ==
    /\ status = "done"
    /\ hist.aborted
    /\ hist.midConcat
    /\ SolarFiles \subseteq hist.cached


\* the first run of a project whose downscaled directory was empty
FirstRunFromEmpty ==
    /\ ~hist.rerun
    /\ ~hist.aborted
    /\ \A k \in DOMAIN hist.startFs : k.dir # "downscaled"

\* C25: the files gathered for a point at its concatenation are exactly the
\* chunk files of that point, one per chunk, and none of another point,
\* whatever the point_ids, those of an ID column included.  (Stated for the
\* first run over an empty directory, where every chunk file is of this run,
\* and for a pattern of one base name and one extension.)
C25_GatheredAreThePointsChunks ==
    [][(ConcatPoint /\ FirstRunFromEmpty /\ Len(Split(config.downscaled_pt, ".")) = 2) =>
           Gathered(World, config, CurrentProgram[pc].i)
               = OwnChunkFiles(CurrentProgram[pc].i)]_vars

---------------------------------------------------------------------------
(* Topoclass.__init__, and the stages called one by one on the object *)

Outputs == <<"o", "u", "t", "p", "u", "t", "s">>

\* config.project.directory, with and without its trailing separator
ProjectDirs == { <<"p", "/">>, <<"p">> }

\* the components of a path given as a string
RECURSIVE NonEmpty(_)
NonEmpty(parts) ==
    IF parts = <<>> THEN <<>>
    ELSE (IF Head(parts) = <<>> THEN <<>> ELSE <<Head(parts)>>) \o NonEmpty(Tail(parts))

PathParts(str) == NonEmpty(Split(str, "/"))

\* line 57: Path(directory, 'outputs')
OutputsPath(directory) == PathParts(directory) \o <<Outputs>>

\* lines 220, 339, 398, 431: directory + 'outputs/', where the stages keep
\* their artifacts (the directory "outputs" of the file system)
StageDir(directory) == PathParts(directory \o Outputs \o <<"/">>)

\* the files below Path(directory, 'outputs'); the downscaled directory is
\* outputs.path / 'downscaled' (line 87)
UnderOutputsPath(f, directory) ==
    {k \in DOMAIN f :
        \/ k.dir \in {"downscaled", "tmp"}
        \/ k.dir = "outputs" /\ StageDir(directory) = OutputsPath(directory)}

\* what shutil.rmtree of a directory may do: remove it; raise because it is
\* not there; raise because a removal fails, the directory still there
RmOutcomes(f, dirs) ==
    {"removed", "fails"} \cup (IF \E k \in DOMAIN f : k.dir \in dirs THEN {} ELSE {"missing"})

CleanOutcomes(f, directory) ==
    [outputs : RmOutcomes(f, {k.dir : k \in UnderOutputsPath(f, directory)}),
     fsm_sims : RmOutcomes(f, {"fsm_sims"}),
     ensemble : RmOutcomes(f, {"ensemble"})]

\* lines 60-66: the except branch makes the directory, which raises when the
\* directory is there
clean_outputs(w, cfg, env) ==
    IF ~cfg.clean_outputs THEN w
    ELSE IF env.outputs = "removed"
    THEN [w EXCEPT !.fs = RemoveFiles(w.fs, UnderOutputsPath(w.fs, cfg.directory))]
    ELSE IF env.outputs = "missing" THEN w
    ELSE Raise(w, "FileExistsError")

\* lines 69-81
clean_FSM(w, cfg, env) ==
    LET gone == (IF env.fsm_sims = "removed" THEN {"fsm_sims"} ELSE {})
                    \cup (IF env.ensemble = "removed" THEN {"ensemble"} ELSE {})
    IN  IF cfg.clean_FSM
        THEN [w EXCEPT !.fs = RemoveFiles(w.fs, {k \in DOMAIN w.fs : k.dir \in gone})]
        ELSE w

\* config.project.extent: absent, the list of the configuration file, or the
\* dict __init__ makes of it; numbers are written as their text
NoExtent == [kind |-> "None", keys |-> <<>>, values |-> <<>>]

ExtentDict(keys, values) == [kind |-> "dict", keys |-> keys, values |-> values]

ExtentKeys == <<"latN", "latS", "lonW", "lonE">>

\* [latN, latS, lonW, lonE] of the configuration file
UserExtent == [kind |-> "list", keys |-> <<>>, values |-> <<"60", "59", "5", "6">>]

\* dict(zip(keys, x)): iterating a list gives its values, iterating a dict
\* gives its keys
DictZip(keys, x) ==
    LET items == IF x.kind = "dict" THEN x.keys ELSE x.values
        n == IF Len(keys) < Len(items) THEN Len(keys) ELSE Len(items)
    IN  ExtentDict(SubSeq(keys, 1, n), SubSeq(items, 1, n))

\* tp.get_extent_latlon: the extent of the terrain raster
TpGetExtentLatlon == ExtentDict(ExtentKeys, <<"61", "58", "4", "7">>)

\* what np.round accepts: a key name is text, every other value is a number
IsNumber(v) == \A i \in 1 .. Len(ExtentKeys) : v # ExtentKeys[i]

\* lines 108-111: the extent as fetch_dem receives it
extent_for_fetch(cfg) ==
    IF ~cfg.dem_file /\ cfg.extent # NoExtent THEN DictZip(ExtentKeys, cfg.extent)
    ELSE cfg.extent

\* lines 120-125: the extent the object keeps, made of the extent as lines
\* 108-111 left it
resolve_extent(cfg) ==
    LET extent_NSWE == extent_for_fetch(cfg)
    IN  IF extent_NSWE # NoExtent THEN DictZip(ExtentKeys, extent_NSWE)
        ELSE TpGetExtentLatlon

\* lines 127-134: the extent is printed, each bound rounded
print_extent(w, extent) ==
    IF \A i \in 1 .. Len(extent.values) : IsNumber(extent.values[i]) THEN w
    ELSE Raise(w, "TypeError")

\* the terrain raster fetched whatever the extent
resolve_dem_noexit(w, cfg) ==
    IF cfg.dem_file THEN w ELSE [w EXCEPT !.calls.fetch_dem = @ + 1]

\* lines 107-118: without the raster file, fetch it for the extent, or exit
resolve_dem(w, cfg) ==
    IF cfg.dem_file THEN w
    ELSE IF cfg.extent # NoExtent THEN [w EXCEPT !.calls.fetch_dem = @ + 1]
    ELSE Raise(w, "SystemExit")

\* lines 145-146, 542-597: the surface and the pressure-level retrieval
get_era5(w, cfg) ==
    IF cfg.climate = "era5" THEN [w EXCEPT !.calls.era5 = @ + 2] ELSE w

\* lines 44-153; ts is the TimeSplitter the object ends with and extent the
\* config.project.extent it leaves
Topoclass_init(w, cfg, env) ==
    LET a == clean_outputs(w, cfg, env)
        b == IF a.err # "" THEN a ELSE clean_FSM(a, cfg, env)
        c == IF b.err # "" THEN b ELSE resolve_dem(b, cfg)
        extent == IF c.err # "" THEN cfg.extent ELSE resolve_extent(cfg)
        p == IF c.err # "" THEN c ELSE print_extent(c, extent)
        d == IF p.err # "" THEN p ELSE get_era5(p, cfg)
        raises == cfg.split_IO /\ TimeSplitterRaises(cfg.start, cfg.end, cfg.split_time,
                                                     cfg.ds_solar, cfg.downscaled_pt)
    IN  IF d.err # "" THEN [w |-> d, ts |-> NoTimeSplitter, extent |-> extent]
        ELSE IF raises
        THEN [w |-> Raise(d, "IndexError"), ts |-> NoTimeSplitter, extent |-> extent]
        ELSE [w |-> d,
              ts |-> IF cfg.split_IO
                     THEN TimeSplitter(cfg.start, cfg.end, cfg.split_time, cfg.ds_solar,
                                       cfg.downscaled_pt)
                     ELSE NoTimeSplitter,
              extent |-> extent]

\* lines 392-425: the whole of compute_solar_geometry
RECURSIVE solar_chunks(_, _, _)
solar_chunks(w, ts, i) ==
    IF w.err # "" \/ i > Len(ts.start_list) THEN w
    ELSE solar_chunks(solar_geometry(w, ts.ds_solar_flist[i], ts.start_list[i],
                                     ts.end_list[i]), ts, i + 1)

compute_solar_geometry(w, cfg, ts) ==
    IF cfg.split_IO THEN solar_chunks(w, ts, 1)
    ELSE solar_geometry(w, cfg.ds_solar, DateStr(cfg.start), DateStr(cfg.end))

\* lines 470-494: the loop over the chunks
RECURSIVE downscale_chunks(_, _, _)
downscale_chunks(w, ts, i) ==
    IF w.err # "" \/ i > Len(ts.start_list) THEN w
    ELSE downscale_chunks(downscale_chunk(w, ts, i), ts, i + 1)

\* lines 499-508: the loop over the points
RECURSIVE concat_points(_, _, _)
concat_points(w, cfg, k) ==
    IF w.err # "" THEN w
    ELSE IF w.df_centroids = None THEN Raise(w, "AttributeError")
    ELSE IF k > Len(w.df_centroids.point_id) THEN w
    ELSE concat_points(concat_point(w, cfg, k, SomeOrder(Gathered(w, cfg, k))), cfg, k + 1)

\* lines 456-540: the whole of downscale_climate; kept are the temporary files
\* rmtree fails to remove
downscale_climate(w, cfg, ts, kept) ==
    LET b == downscale_begin(w, cfg)
        c == IF b.err # "" THEN b
             ELSE IF cfg.split_IO THEN concat_points(downscale_chunks(b, ts, 1), cfg, 1)
             ELSE downscale_global(b, cfg)
    IN  IF c.err # "" THEN c
        ELSE delete_tmp_dirs(downscale_end(c, cfg, ts), cfg, kept)

\* the options of the configuration that __init__ and downscale_climate read
DefaultOptions ==
    [directory |-> <<"p", "/">>, clean_outputs |-> FALSE, clean_FSM |-> FALSE,
     extent |-> UserExtent, dem_file |-> TRUE, climate |-> "era5", delete_tmp_dirs |-> FALSE]

DownOptions == {[DefaultOptions EXCEPT !.delete_tmp_dirs = TRUE]}

CleanOptions ==
    {[DefaultOptions EXCEPT !.directory = d, !.clean_outputs = c] :
        d \in ProjectDirs, c \in BOOLEAN}

InitOptions ==
    { [DefaultOptions EXCEPT !.clean_outputs = TRUE, !.clean_FSM = TRUE],
      [DefaultOptions EXCEPT !.extent = NoExtent],
      [DefaultOptions EXCEPT !.dem_file = FALSE],
      [DefaultOptions EXCEPT !.extent = NoExtent, !.dem_file = FALSE],
      [DefaultOptions EXCEPT !.climate = "other"] }

StageSamplings ==
    Samplings \cup
    { Sampling("toposub", <<>>, 2, "minibatchkmean"),
      Sampling("toposub", <<>>, 2, "foo"),
      Sampling("both", <<>>, 2, "kmean"),
      Sampling("foo", <<>>, 2, "kmean"),
      [Sampling("points", <<>>, 2, "kmean") EXCEPT !.csv_file = <<"/">> \o CsvFileName] }

\* point lists and clusterings of every size
SizedSamplings ==
    {Sampling(m, <<>>, n, "kmean") : m \in {"points", "toposub"}, n \in 1 .. MaxPoints}

StageConfig(sampling, split) ==
    [start |-> <<2019, 1, 1>>, end |-> <<2019 + NumYears - 2, 12, 31>>, split_IO |-> split,
     split_time |-> 1, ds_solar |-> <<"s", ".", "n", "c">>,
     downscaled_pt |-> <<"d", "_", "*", ".", "n", "c">>, sampling |-> sampling]

\* the configurations of the point lists and clusterings of every size, each
\* the configuration of a new project
SizedConfigs == {StageConfig(sam, FALSE) @@ DefaultOptions : sam \in SizedSamplings \ Samplings}

StageConfigs ==
    {StageConfig(sam, split) @@ DefaultOptions : sam \in StageSamplings, split \in BOOLEAN}
    \cup {StageConfig(sam, split) @@ opt :
              sam \in {x \in Samplings : x.method = "toposub"}, split \in BOOLEAN,
              opt \in CleanOptions}
    \cup {StageConfig(sam, TRUE) @@ opt :
              sam \in {x \in Samplings : x.method = "toposub"}, opt \in InitOptions}
    \cup SizedConfigs
    \cup {StageConfig(sam, split) @@ opt :
              sam \in Samplings, split \in BOOLEAN, opt \in DownOptions}

\* artifacts an earlier project left, computed for other points and dates
StaleDsParam == [TpComputeDemParam EXCEPT !.cluster_labels = TsClusterLabels(GridCells, 3)]

StaleCentroids ==
    [Centroids(<< <<"7">>, <<"8">>, <<"9">> >>) EXCEPT !.lonlat = TRUE]

StaleSolar == SgGetSolarGeom(StaleCentroids, OldStart, OldEnd)

SolarNames(cfg) ==
    IF cfg.split_IO
    THEN LET sl == StartList(cfg.start, cfg.end, cfg.split_time)
             el == EndList(cfg.start, cfg.end, cfg.split_time)
             fl == flist_generator(sl, el, cfg.ds_solar)
         IN  {fl[i] : i \in 1 .. Len(fl)}
    ELSE {cfg.ds_solar}

StaleArtifacts(cfg) ==
    LET grid == OutPath(DsParamName) :> StaleDsParam
        table == OutPath(DfCentroidsName) :> StaleCentroids
        solar == [k \in {OutPath(name) : name \in SolarNames(cfg)} |-> StaleSolar]
        horizon == OutPath(DaHorizonName) :> TpComputeHorizon
        sims == [dir |-> "fsm_sims", rel |-> << <<"f">> >>] :> None
        final == DownPath(<<"d", "_", "7", ".", "n", "c">>) :> OldFile(<<"7">>)
        tmp == [dir |-> "tmp", rel |-> << <<"t">> >>] :> None
        climate_tmp == [dir |-> "climate_tmp", rel |-> << <<"t">> >>] :> None
    IN  {EmptyFs, grid, grid @@ table, horizon,
         grid @@ table @@ solar @@ horizon @@ sims @@ final @@ tmp @@ climate_tmp}

\* a configuration read, the object not yet constructed
InitStages ==
    /\ config \in StageConfigs
    /\ fs \in (IF config \in SizedConfigs THEN {EmptyFs} ELSE StaleArtifacts(config))
    /\ time_splitter = NoTimeSplitter
    /\ status = "init"
    /\ pc = 1
    /\ toposub = [ds_param |-> None, df_centroids |-> None]
    /\ ds_solar = None
    /\ da_horizon = None
    /\ downscaled_pts = None
    /\ calls = NoCalls
    /\ hist = [NoHist EXCEPT !.startFs = fs]

\* Topoclass(config_file)
Initialise ==
    /\ status = "init"
    /\ \E env \in CleanOutcomes(fs, config.directory) :
           LET r == Topoclass_init(World, config, env)
           IN  /\ fs' = r.w.fs
               /\ calls' = r.w.calls
               /\ time_splitter' = r.ts
               /\ status' = IF r.w.err # "" THEN r.w.err ELSE "ready"
               /\ config' = [config EXCEPT !.extent = r.extent]
    /\ UNCHANGED <<pc, toposub, ds_solar, da_horizon, downscaled_pts, hist>>

\* the object as a call of one of its methods finds it; calls counts the
\* collaborators the call invokes
Called == [World EXCEPT !.calls = NoCalls]

\* the object as a call leaves it
Returns(w) ==
    /\ fs' = w.fs
    /\ toposub' = [ds_param |-> w.ds_param, df_centroids |-> w.df_centroids]
    /\ ds_solar' = w.ds_solar
    /\ da_horizon' = w.da_horizon
    /\ calls' = w.calls
    /\ downscaled_pts' = w.downscaled_pts
    /\ status' = IF w.err # "" THEN w.err ELSE "ready"
    /\ config' = [config EXCEPT !.sampling.csv_file = w.csv_file]
    /\ UNCHANGED <<time_splitter, pc, hist>>

CallComputeDemParam == status = "ready" /\ Returns(compute_dem_param(Called))

CallExtractTopoParam == status = "ready" /\ Returns(extract_topo_param(Called, config))

CallExtractTopoClusterParam == status = "ready" /\ Returns(extract_topo_cluster_param(Called, config))

CallComputeSolarGeometry == status = "ready" /\ Returns(compute_solar_geometry(Called, config, time_splitter))

CallComputeHorizon == status = "ready" /\ Returns(compute_horizon(Called))

CallDownscaleClimate ==
    /\ status = "ready"
    /\ \E kept \in TmpKept(fs, config) :
           Returns(downscale_climate(Called, config, time_splitter, kept))

CallToCryogrid == status = "ready" /\ Returns(to_cryogrid(Called))

NextStages ==
    \/ Initialise
    \/ CallDownscaleClimate
    \/ CallToCryogrid
    \/ CallComputeDemParam
    \/ CallExtractTopoParam
    \/ CallExtractTopoClusterParam
    \/ CallComputeSolarGeometry
    \/ CallComputeHorizon

SpecStages == InitStages /\ [][NextStages]_vars


---------------------------------------------------------------------------
(* The cache convention of the stages *)

SolarPaths == {OutPath(name) : name \in SolarNames(config)}

\* the solar file compute_solar_geometry handles last
LastSolarPath ==
    IF config.split_IO
    THEN OutPath(time_splitter.ds_solar_flist[Len(time_splitter.ds_solar_flist)])
    ELSE OutPath(config.ds_solar)

\* C11: a cached stage whose artifact file exists loads that file: it invokes
\* no compute collaborator and validates nothing, also when the file was
\* written for other points and dates, and it completes (compute_horizon, which
\* goes on to sample the horizon, when the point table is there).
C11_CacheHitLoadsTheFile ==
    [][/\ (CallComputeDemParam /\ IsFile(fs, OutPath(DsParamName))) =>
              /\ toposub'.ds_param = fs[OutPath(DsParamName)]
              /\ calls' = NoCalls /\ fs' = fs /\ status' = "ready"
       /\ (CallExtractTopoParam /\ IsFile(fs, OutPath(DfCentroidsName))) =>
              /\ toposub'.df_centroids = fs[OutPath(DfCentroidsName)]
              /\ calls' = NoCalls /\ fs' = fs /\ status' = "ready"
       /\ CallComputeSolarGeometry =>
              /\ \A path \in SolarPaths \cap DOMAIN fs : fs'[path] = fs[path]
              /\ status' = "ready" => calls'.solar = Cardinality(SolarPaths \ DOMAIN fs)
              /\ SolarPaths \subseteq DOMAIN fs =>
                     /\ ds_solar' = fs[LastSolarPath]
                     /\ calls' = NoCalls /\ fs' = fs /\ status' = "ready"
       /\ (CallComputeHorizon /\ IsFile(fs, OutPath(DaHorizonName))) =>
              /\ da_horizon' = fs[OutPath(DaHorizonName)]
              /\ calls' = NoCalls
              /\ fs'[OutPath(DaHorizonName)] = fs[OutPath(DaHorizonName)]
              /\ toposub.df_centroids # None => status' = "ready"]_vars

\* C11's case: every stage has loaded a file written for other points and dates
C11_Witness ==
    /\ status = "ready"
    /\ calls = NoCalls
    /\ toposub.ds_param = StaleDsParam
    /\ toposub.df_centroids # None
    /\ toposub.df_centroids.point_id = StaleCentroids.point_id
    /\ toposub.df_centroids.point_id # ConfigPointIds(config)
    /\ ds_solar = StaleSolar
    /\ da_horizon # None

\* lines 344-350: the sampling methods that compute a point table
KnownSampling == config.sampling.method \in {"points", "point", "toposub"}

\* C12: a cached stage whose artifact file does not exist, and whose
\* computation succeeds, invokes its compute collaborator once (once per
\* missing solar file), persists the result under the path its existence test
\* reads, keeps it, and is a cache hit when invoked again at once.
C12_CacheMissComputesOnceAndPersists ==
    [][/\ (CallComputeDemParam /\ ~IsFile(fs, OutPath(DsParamName)) /\ status' = "ready") =>
              /\ calls'.dem = 1
              /\ IsFile(fs', OutPath(DsParamName))
              /\ fs'[OutPath(DsParamName)] = toposub'.ds_param
              /\ compute_dem_param(Called') = Called'
       /\ (CallExtractTopoParam /\ ~IsFile(fs, OutPath(DfCentroidsName))
               /\ KnownSampling /\ status' = "ready") =>
              /\ calls'.sample = 1
              /\ IsFile(fs', OutPath(DfCentroidsName))
              /\ fs'[OutPath(DfCentroidsName)] = toposub'.df_centroids
              /\ extract_topo_param(Called', config) = Called'
       /\ (CallComputeSolarGeometry /\ ~(SolarPaths \subseteq DOMAIN fs)
               /\ status' = "ready") =>
              /\ calls'.solar = Cardinality(SolarPaths \ DOMAIN fs)
              /\ SolarPaths \subseteq DOMAIN fs'
              /\ fs'[LastSolarPath] = ds_solar'
              /\ compute_solar_geometry(Called', config, time_splitter) = Called'
       /\ (CallComputeHorizon /\ ~IsFile(fs, OutPath(DaHorizonName))
               /\ status' = "ready") =>
              /\ calls'.horizon = 1
              /\ IsFile(fs', OutPath(DaHorizonName))
              /\ fs'[OutPath(DaHorizonName)] = da_horizon'
              /\ compute_horizon(Called').calls = NoCalls]_vars

\* C12's case: the solar geometry of every chunk was computed and persisted
C12_Witness ==
    /\ status = "ready"
    /\ config.split_IO
    /\ calls.solar = Cardinality(SolarPaths)
    /\ calls.solar >= 2
    /\ SolarPaths \subseteq DOMAIN fs
    /\ \A path \in SolarPaths : fs[path].point_id = toposub.df_centroids.point_id


---------------------------------------------------------------------------
(* Initialisation: the clean pass and the spatial extent *)

\* the paths the cached stages test
StagePaths == {OutPath(DsParamName), OutPath(DfCentroidsName), OutPath(DaHorizonName)}
                  \cup SolarPaths

\* C13: initialising with clean_outputs, whatever the project directory string,
\* leaves no cached artifact: every stage run afterwards finds no file and
\* recomputes.  (The clean removes Path(directory, 'outputs'), the stages test
\* directory + 'outputs/'.)
C13_CleanForcesRecomputation ==
    [][(Initialise /\ config.clean_outputs /\ status' = "ready") =>
           /\ StagePaths \cap DOMAIN fs' = {}
           /\ compute_dem_param(Called').calls.dem = 1
           /\ compute_horizon(Called').calls.horizon = 1]_vars

\* C14: a directory removal that fails during the clean pass (outputs, FSM or
\* ensemble directory; missing, or still there) is swallowed: initialisation
\* does not raise out of the clean pass.
C14_CleanFailuresSwallowed == status # "FileExistsError"

\* C15: without a configured extent and without a terrain raster file,
\* initialisation exits at once: no DEM is fetched, no climate data retrieved
\* and no TimeSplitter constructed.
C15_NoExtentNoDemExits ==
    [][(Initialise /\ config.extent = NoExtent /\ ~config.dem_file) =>
           /\ status' \in {"SystemExit", "FileExistsError"}
           /\ config.clean_outputs = FALSE => status' = "SystemExit"
           /\ calls'.fetch_dem = 0
           /\ calls'.era5 = 0
           /\ time_splitter' = NoTimeSplitter
           /\ ~time_splitter'.built]_vars

\* C15's case: the exit, for a configuration that reads climate data and splits
C15_Witness ==
    /\ status = "SystemExit"
    /\ config.extent = NoExtent /\ ~config.dem_file
    /\ config.climate = "era5" /\ config.split_IO
    /\ calls = NoCalls
    /\ ~time_splitter.built


---------------------------------------------------------------------------
(* Spatial sampling and the horizon *)

UnknownClustering == config.sampling.clustering_method \notin {"kmean", "minibatchkmean"}

\* C16: with an unknown clustering method, cluster-mode sampling does not go
\* on: it ends in an error, the point table and the grid are as they were,
\* and no file is written.
C16_UnknownClusteringStops ==
    [][(CallExtractTopoClusterParam /\ UnknownClustering) =>
           /\ status' # "ready"
           /\ toposub' = toposub
           /\ fs' = fs]_vars

Distinct(ids) == \A i, j \in 1 .. Len(ids) : ids[i] = ids[j] => i = j

\* point_ids of the indexes first, first + 1, ...: unique, of the width of the
\* largest index, and in the order of the indexes when compared as strings
PaddedIds(ids, first) ==
    /\ Distinct(ids)
    /\ \A i \in 1 .. Len(ids) :
           /\ Len(ids[i]) = Len(IntStr(first + Len(ids) - 1))
           /\ ParseInt(ids[i]) = first + i - 1
    /\ \A i, j \in 1 .. Len(ids) : i < j <=> StrLess(ids[i], ids[j])

\* C17: the point_ids sampling derives from the row order (points without an
\* identifier column) or from the cluster index are unique, all of the width
\* of the largest index, and sort as strings as their indexes sort as numbers.
C17_PointIdsPadded ==
    [][((CallExtractTopoParam \/ CallExtractTopoClusterParam) /\ calls'.sample = 1
            /\ status' = "ready" /\ config.sampling.csv_ids = <<>>) =>
           PaddedIds(toposub'.df_centroids.point_id,
                     IF config.sampling.method = "points" /\ ~CallExtractTopoClusterParam
                     THEN 1 ELSE 0)]_vars

\* C17's case: sampled point_ids that need padding
C17_Witness ==
    /\ status = "ready"
    /\ calls.sample = 1
    /\ config.sampling.csv_ids = <<>>
    /\ toposub.df_centroids # None
    /\ Len(toposub.df_centroids.point_id) >= 10
    /\ Len(toposub.df_centroids.point_id) = config.sampling.n

\* C18: cluster-mode sampling with n_clusters = k (the grid has at least k
\* cells) yields k points with k unique point_ids, and the cluster_labels
\* written to the grid, in the object and in its file, give every cell the
\* index of one of the k points.
C18_ClusterLabelsWritten ==
    [][((CallExtractTopoParam \/ CallExtractTopoClusterParam) /\ calls'.sample = 1
            /\ status' = "ready" /\ config.sampling.method = "toposub"
            /\ ~UnknownClustering) =>
           LET ids == toposub'.df_centroids.point_id
               labels == toposub'.ds_param.cluster_labels
           IN  /\ Len(ids) = config.sampling.n
               /\ Distinct(ids)
               /\ Len(labels) = toposub'.ds_param.cells
               /\ \A c \in 1 .. Len(labels) :
                      \E i \in 1 .. Len(ids) : ParseInt(ids[i]) = labels[c]
               /\ fs'[OutPath(DsParamName)] = toposub'.ds_param]_vars

\* C18's case: a grid clustered into several clusters
C18_Witness ==
    /\ status = "ready"
    /\ calls.sample = 1
    /\ config.sampling.method = "toposub"
    /\ config.sampling.n >= 3
    /\ toposub.ds_param # None
    /\ toposub.ds_param.cluster_labels = TsClusterLabels(GridCells, config.sampling.n)

\* C19: compute_horizon called while there is no point table completes without
\* error, yields the horizon artifact and leaves the table absent; called with
\* a table, it adds the horizon columns to it and persists it again.
C19_HorizonBeforeOrAfterSampling ==
    [][CallComputeHorizon =>
           /\ status' = "ready"
           /\ da_horizon' # None
           /\ IF toposub.df_centroids = None
              THEN toposub'.df_centroids = None
              ELSE /\ toposub'.df_centroids = [toposub.df_centroids EXCEPT !.hori = TRUE]
                   /\ fs'[OutPath(DfCentroidsName)] = toposub'.df_centroids]_vars

\* C20: compute_horizon with an existing horizon file and a point table does
\* not invoke the horizon collaborator, samples the horizon into the table and
\* persists the table; a second call at once changes neither table nor files.
C20_HorizonResampledFromCache ==
    [][(CallComputeHorizon /\ IsFile(fs, OutPath(DaHorizonName))
            /\ toposub.df_centroids # None) =>
           /\ status' = "ready"
           /\ calls'.horizon = 0
           /\ da_horizon' = fs[OutPath(DaHorizonName)]
           /\ toposub'.df_centroids = [toposub.df_centroids EXCEPT !.hori = TRUE]
           /\ fs'[OutPath(DfCentroidsName)] = toposub'.df_centroids
           /\ compute_horizon(Called') = Called']_vars

\* C20's case: a table without horizon columns sampled from a horizon file
\* that was there
C20_Witness ==
    /\ status = "ready"
    /\ calls = NoCalls
    /\ da_horizon # None
    /\ toposub.df_centroids # None
    /\ toposub.df_centroids.hori
    /\ toposub.df_centroids.point_id = StaleCentroids.point_id
    /\ fs[OutPath(DfCentroidsName)] = toposub.df_centroids


\* C28: extract_topo_param with no cached point table and a sampling method
\* that is unknown, or 'both', leaves the table of the object as it was and
\* writes no table file: a later run is still a cache miss.
C28_UnknownSamplingChangesNothing ==
    [][(CallExtractTopoParam /\ ~IsFile(fs, OutPath(DfCentroidsName)) /\ ~KnownSampling) =>
           /\ toposub'.df_centroids = toposub.df_centroids
           /\ ~IsFile(fs', OutPath(DfCentroidsName))]_vars


\* a grid but for its cluster_labels field
Unlabelled(ds) == [ds EXCEPT !.cluster_labels = <<>>]

ClusterSampling ==
    \/ CallExtractTopoClusterParam
    \/ CallExtractTopoParam /\ config.sampling.method = "toposub"

\* C22: once the terrain grid exists, no stage changes anything of it, in the
\* object or in its file, but its cluster_labels field, and only cluster-mode
\* sampling changes that.
C22_GridChangesOnlyItsLabels ==
    [][status = "ready" =>
           /\ toposub.ds_param # None =>
                  /\ toposub'.ds_param # None
                  /\ Unlabelled(toposub'.ds_param) = Unlabelled(toposub.ds_param)
                  /\ toposub'.ds_param # toposub.ds_param => ClusterSampling
           /\ IsFile(fs, OutPath(DsParamName)) =>
                  /\ IsFile(fs', OutPath(DsParamName))
                  /\ Unlabelled(fs'[OutPath(DsParamName)]) = Unlabelled(fs[OutPath(DsParamName)])
                  /\ fs'[OutPath(DsParamName)] # fs[OutPath(DsParamName)] => ClusterSampling]_vars

\* C22's case: cluster-mode sampling has overwritten the cluster_labels of a
\* grid that had some
C22_Witness ==
    /\ status = "ready"
    /\ calls.sample = 1
    /\ ~config.clean_outputs
    /\ IsFile(hist.startFs, OutPath(DsParamName))
    /\ hist.startFs[OutPath(DsParamName)].cluster_labels # <<>>
    /\ toposub.ds_param # None
    /\ toposub.ds_param.cluster_labels # hist.startFs[OutPath(DsParamName)].cluster_labels
    /\ fs[OutPath(DsParamName)] = toposub.ds_param

---------------------------------------------------------------------------
(* The export *)

\* C29: to_cryogrid hands the export label_map = TRUE and the cluster_labels
\* field whenever the terrain grid has that field, and label_map = FALSE with
\* no label field only when the grid has none.
C29_ExportGetsTheLabels ==
    [][(CallToCryogrid /\ toposub.ds_param # None) =>
           /\ status' = "ready"
           /\ calls'.export.label_map <=> toposub.ds_param.cluster_labels # <<>>
           /\ calls'.export.label_map =>
                  calls'.export.da_label.values = toposub.ds_param.cluster_labels
           /\ ~calls'.export.label_map => calls'.export.da_label = None]_vars


---------------------------------------------------------------------------
(* downscale_climate called on the object *)

SolarPathOf(i) == OutPath(time_splitter.ds_solar_flist[i])

\* C23: in split mode downscale_climate invokes the transfer function once per
\* chunk, in the order of the chunks, the i-th time with the dates, the output
\* filename and the solar artifact of chunk i; that artifact is loaded when
\* its file is there and computed otherwise, whether or not
\* compute_solar_geometry has run.
C23_OneInvocationPerChunk ==
    [][(CallDownscaleClimate /\ config.split_IO /\ toposub.df_centroids # None) =>
           /\ status' = "ready"
           /\ Len(calls'.down_args) = Len(time_splitter.start_list)
           /\ \A i \in 1 .. Len(calls'.down_args) :
                  /\ calls'.down_args[i].start = time_splitter.start_list[i]
                  /\ calls'.down_args[i].end = time_splitter.end_list[i]
                  /\ calls'.down_args[i].fname = time_splitter.downscaled_flist[i]
                  /\ IsFile(fs', SolarPathOf(i))
                  /\ calls'.down_args[i].ds_solar = fs'[SolarPathOf(i)]
                  /\ IsFile(fs, SolarPathOf(i)) => fs'[SolarPathOf(i)] = fs[SolarPathOf(i)]]_vars


\* C26: downscale_climate deletes the temporary directories only at its end
\* and only when the configuration asks for it; otherwise the directories
\* and their contents are as they were; and a deletion that fails raises
\* nothing.
C26_TmpDirsDeletedOnlyIfConfigured ==
    [][(TmpFiles(fs) # {} /\ CallDownscaleClimate) =>
           /\ ~config.delete_tmp_dirs =>
                  /\ TmpFiles(fs') = TmpFiles(fs)
                  /\ \A k \in TmpFiles(fs) : fs'[k] = fs[k]
           /\ TmpFiles(fs') # TmpFiles(fs) =>
                  /\ config.delete_tmp_dirs
                  /\ status' = "ready"
                  /\ downscaled_pts' # None
                  /\ TmpFiles(fs') = {}
           /\ downscale_climate(Called, config, time_splitter, TmpFiles(fs)).err
                  = downscale_climate(Called, config, time_splitter, {}).err]_vars

\* C26's case: a downscaling that deleted the temporary files it found
C26_Witness ==
    /\ status = "ready"
    /\ config.delete_tmp_dirs
    /\ calls.down >= 1
    /\ downscaled_pts # None
    /\ TmpFiles(hist.startFs) # {}
    /\ TmpFiles(fs) = {}

\* C21: once the Topoclass is constructed the configuration is immutable: no
\* stage call changes any configuration field.
C21_ConfigImmutableAfterInit ==
    [][status = "ready" => config' = config]_vars

\* C24: with an explicit extent in the configuration, the extent after
\* initialisation maps latN, latS, lonW and lonE to the four supplied values,
\* when the terrain raster exists and when it had to be fetched.
C24_ExtentMapsSuppliedValues ==
    [][(/\ status = "init"
        /\ config.extent # NoExtent
        /\ ~config.clean_outputs
        /\ Initialise) =>
           /\ status' # "TypeError"
           /\ config'.extent = ExtentDict(ExtentKeys, config.extent.values)]_vars

=============================================================================
